---- MODULE Spec2Model ----
(***************************************************************************)
(* A model of Tools/quippy/scripts/db-dump.py: the column-spec resolver of *)
(* Formatter.__init__, cut, the table renderer Formatter.format, the fmax  *)
(* accessor and the extraction path of run.                                *)
(*                                                                         *)
(* A Python value is a record tagged with its type: PyNone, PyInt(n),      *)
(* PyFloat(k) (the float k/16, exact in binary), PyStr(s).  A str is a     *)
(* sequence of one-character strings.                                      *)
(***************************************************************************)
EXTENDS Integers, Sequences, FiniteSets, TLC

VARIABLES
    pc,            \* where the modelled call sequence stands
    exc,           \* the exception that ended it, or "none"
    cols, sort,    \* the arguments of Formatter(cols, sort)
    self_columns,  \* Formatter.columns
    self_sort,     \* Formatter.sort
    self_funcs,    \* Formatter.funcs, as the column names they were bound for
    txt, length,   \* the arguments of cut
    result,        \* what cut returned
    dcts, opts,    \* the selected records and the parsed options
    table,         \* format's table when it ends: header row, data rows
    widths, signs, \* format's column widths and alignment signs
    stdout,        \* the lines written to sys.stdout
    ret,           \* what format returned: (ids, columns)
    verbosity,     \* run's verbosity: 1 - quiet + verbose
    writers,       \* the file names AtomsWriter was opened with, in order
    written        \* the write calls: which writer, which record

argVars == <<txt, length, dcts, verbosity>>
xVars == <<writers, written>>
fmtVars == <<table, widths, signs, stdout, ret>>
vars == <<pc, exc, cols, sort, self_columns, self_sort, self_funcs, result,
          opts, argVars, fmtVars, xVars>>

PyNone == [t |-> "None"]
PyInt(n) == [t |-> "int", v |-> n]
PyFloat(k) == [t |-> "float", v |-> k]
PyStr(s) == [t |-> "str", v |-> s]

\* Placeholders for what a call sequence never sets.
NoOpts == [uniq |-> FALSE]
NoReturn == [ids |-> <<>>, columns |-> <<>>]

\* The longest column-spec string drawn for Formatter.__init__.
MaxSpecLen == 5

(***************************************************************************)
(* str and list helpers                                                    *)
(***************************************************************************)
RECURSIVE StrsUpTo(_, _)
StrsUpTo(alphabet, n) ==
    IF n = 0 THEN {<<>>}
    ELSE LET shorter == StrsUpTo(alphabet, n - 1)
         IN  shorter \cup {Append(s, c) : s \in shorter, c \in alphabet}

\* s[k:] for k >= 0
From(s, k) == SubSeq(s, k + 1, Len(s))

\* str.split(sep): one token more than there are separators, empty ones kept.
RECURSIVE split(_, _)
split(s, sep) ==
    IF \A k \in 1..Len(s) : s[k] # sep THEN <<s>>
    ELSE LET k == CHOOSE j \in 1..Len(s) :
                      s[j] = sep /\ \A m \in 1..(j - 1) : s[m] # sep
         IN  <<SubSeq(s, 1, k - 1)>> \o split(From(s, k), sep)

\* str.lstrip(ch)
RECURSIVE lstrip(_, _)
lstrip(s, ch) ==
    IF Len(s) > 0 /\ s[1] = ch THEN lstrip(Tail(s), ch) ELSE s

\* x in list
In(x, list) == \E k \in 1..Len(list) : list[k] = x

\* list.remove(x) for x in list: the first occurrence goes.
remove(list, x) ==
    LET k == CHOOSE j \in 1..Len(list) :
                 list[j] = x /\ \A m \in 1..(j - 1) : list[m] # x
    IN  SubSeq(list, 1, k - 1) \o SubSeq(list, k + 1, Len(list))

(***************************************************************************)
(* Formatter.__init__: the column list                                     *)
(***************************************************************************)
DefaultColumns ==
    << <<"i","d">>, <<"a","g","e">>, <<"u","s","e","r">>,
       <<"f","o","r","m","u","l","a">>, <<"c","a","l","c">>,
       <<"e","n","e","r","g","y">>, <<"f","m","a","x">>, <<"p","b","c">>,
       <<"s","i","z","e">>, <<"k","e","y","w","o","r","d","s">>,
       <<"c","h","a","r","g","e">>, <<"m","a","s","s">>,
       <<"f","i","x","e","d">>, <<"s","m","a","x">>,
       <<"m","a","g","m","o","m">>, <<"c","e","l","l">> >>

\* StartColumns with the test of line 55 applied to the '+' case instead.
StartColumnsSwapped(spec) ==
    IF spec[1] = "+" THEN <<>> ELSE DefaultColumns

\* StartColumns without the reset of line 56.
StartColumnsKeep(spec) == DefaultColumns

\* Lines 53-56: a leading '+' or '-' keeps the default list, anything else
\* starts from the empty list.
StartColumns(spec) ==
    IF spec[1] = "+" THEN DefaultColumns
    ELSE IF spec[1] # "-" THEN <<>>
    ELSE DefaultColumns

\* Lines 53-54: only a leading '+' is stripped before the split.
Stripped(spec) == IF spec[1] = "+" THEN Tail(spec) ELSE spec

\* Lines 57-61, one token after the other.  The result is the list, or the
\* exception that ends __init__.
RECURSIVE ApplyTokens(_, _)
ApplyTokens(list, tokens) ==
    IF tokens = <<>> THEN [exc |-> "none", columns |-> list]
    ELSE LET col == Head(tokens)
         IN  IF Len(col) = 0
             THEN [exc |-> "IndexError", columns |-> list]
             ELSE IF col[1] = "-"
             THEN IF In(Tail(col), list)
                  THEN ApplyTokens(remove(list, Tail(col)), Tail(tokens))
                  ELSE [exc |-> "ValueError", columns |-> list]
             ELSE ApplyTokens(Append(list, lstrip(col, "+")), Tail(tokens))

\* Lines 48-61 for the argument cols, None or a str.
ResolveColumns(spec) ==
    IF spec.t # "None" /\ Len(spec.v) > 0
    THEN ApplyTokens(StartColumns(spec.v), split(Stripped(spec.v), ","))
    ELSE [exc |-> "none", columns |-> DefaultColumns]

SpecAlphabet == {"+", "-", ",", "i", "d"}

InitColumns ==
    /\ pc = "new"
    /\ exc = "none"
    /\ cols \in {PyStr(s) : s \in StrsUpTo(SpecAlphabet, MaxSpecLen)} \cup {PyNone}
    /\ sort = PyNone
    /\ self_columns = <<>> /\ self_sort = PyNone /\ self_funcs = <<>>
    /\ txt = <<>> /\ length = PyNone /\ result = <<>>
    /\ dcts = <<>> /\ opts = NoOpts
    /\ table = <<>> /\ widths = <<>> /\ signs = <<>>
    /\ stdout = <<>> /\ ret = NoReturn
    /\ verbosity = 1 /\ writers = <<>> /\ written = <<>>

\* Formatter(cols, sort), lines 45-68: funcs holds one function per column
Formatter__init__ ==
    /\ pc = "new"
    /\ \E r \in {ResolveColumns(cols)} :
           /\ exc' = r.exc
           /\ pc' = IF r.exc = "none" THEN "constructed" ELSE "raised"
           /\ self_columns' = IF r.exc = "none" THEN r.columns ELSE <<>>
           /\ self_sort' = IF r.exc = "none" THEN sort ELSE PyNone
           /\ self_funcs' = IF r.exc = "none" THEN r.columns ELSE <<>>
    /\ UNCHANGED <<cols, sort, result, opts, argVars, fmtVars, xVars>>

NextColumns == Formatter__init__

SpecColumns == InitColumns /\ [][NextColumns]_vars

(***************************************************************************)
(* The column list of Formatter.__init__: C1, C2                           *)
(***************************************************************************)
NoDuplicates(list) ==
    \A j, k \in 1..Len(list) : list[j] = list[k] => j = k

HasSpec == cols.t = "str" /\ Len(cols.v) > 0

PlusSpec == HasSpec /\ cols.v[1] = "+"

\* The comma-separated tokens the loop of line 57 sees.
SpecTokens == split(Stripped(cols.v), ",")

IsRemoval(tok) == Len(tok) > 0 /\ tok[1] = "-"

\* The names the tokens append, in order.
RECURSIVE AppendedNames(_)
AppendedNames(tokens) ==
    IF tokens = <<>> THEN <<>>
    ELSE IF IsRemoval(Head(tokens)) THEN AppendedNames(Tail(tokens))
    ELSE <<lstrip(Head(tokens), "+")>> \o AppendedNames(Tail(tokens))

\* C1 as stated: for every column-spec string that begins with '+', the
\* resolved list contains every default column and is the default list
\* followed by the names given in the spec, in spec order.
C1_PlusIsDefaultThenNames ==
    (pc = "constructed" /\ PlusSpec) =>
        /\ \A k \in 1..Len(DefaultColumns) : In(DefaultColumns[k], self_columns)
        /\ self_columns =
               DefaultColumns \o [k \in 1..Len(SpecTokens) |->
                                     lstrip(SpecTokens[k], "+")]

\* C1 amended: for a spec that begins with '+' and has no token that begins
\* with '-', __init__ completes exactly when no token is empty, and the list
\* is then the default list followed by the tokens, each without its leading
\* '+' signs, in spec order.
C1_PlusWithoutRemovals ==
    (pc # "new" /\ PlusSpec /\ \A k \in 1..Len(SpecTokens) : ~IsRemoval(SpecTokens[k])) =>
        /\ pc = "constructed" <=> \A k \in 1..Len(SpecTokens) : SpecTokens[k] # <<>>
        /\ pc = "constructed" =>
              /\ Len(self_columns) = Len(DefaultColumns) + Len(SpecTokens)
              /\ SubSeq(self_columns, 1, Len(DefaultColumns)) = DefaultColumns
              /\ \A k \in 1..Len(SpecTokens) :
                     self_columns[Len(DefaultColumns) + k] = lstrip(SpecTokens[k], "+")

\* '+i,d' and the like: two names appended to the default list.
C1_Witness ==
    /\ pc = "constructed" /\ PlusSpec
    /\ \A k \in 1..Len(SpecTokens) : ~IsRemoval(SpecTokens[k])
    /\ Len(SpecTokens) = 2
    /\ \A k \in 1..Len(SpecTokens) : lstrip(SpecTokens[k], "+") # <<>>
    /\ Len(self_columns) = Len(DefaultColumns) + 2

\* C2 as stated: after __init__ has resolved any column-spec string, the
\* column list contains no column name more than once.
C2_NoDuplicateColumns ==
    pc = "constructed" => NoDuplicates(self_columns)

\* C2 amended: the column list has no duplicates when the spec is None or
\* empty, or when the names it appends are pairwise distinct and, under a
\* leading '+' or '-', none of them is a default column.
C2_NoDuplicatesUnlessAppendedTwice ==
    (/\ pc = "constructed"
     /\ HasSpec =>
           /\ NoDuplicates(AppendedNames(SpecTokens))
           /\ cols.v[1] \in {"+", "-"} =>
                 \A k \in 1..Len(AppendedNames(SpecTokens)) :
                     ~In(AppendedNames(SpecTokens)[k], DefaultColumns))
    => NoDuplicates(self_columns)

\* 'id,d' and the like: a pure replacement that appends two distinct names.
C2_Witness ==
    /\ pc = "constructed" /\ HasSpec /\ cols.v[1] \notin {"+", "-"}
    /\ NoDuplicates(AppendedNames(SpecTokens))
    /\ Len(AppendedNames(SpecTokens)) = 2
    /\ Len(self_columns) = 2

(***************************************************************************)
(* cut                                                                     *)
(***************************************************************************)
\* The longest str and the largest length drawn for cut.
MaxTxtLen == 6
MaxCut == 5

Max(a, b) == IF a >= b THEN a ELSE b
Min(a, b) == IF a <= b THEN a ELSE b

\* txt[:k]: a negative k counts from the end.
UpTo(s, k) ==
    IF k >= 0 THEN SubSeq(s, 1, Min(k, Len(s)))
    ELSE SubSeq(s, 1, Max(0, Len(s) + k))

Ellipsis == <<".", ".", ".">>

\* Lines 34-39
cut(s, n) ==
    IF n.t = "None" THEN s
    ELSE IF n.v = 0 THEN s
    ELSE IF Len(s) <= n.v THEN s
    ELSE UpTo(s, n.v - 3) \o Ellipsis

InitCut ==
    /\ pc = "call"
    /\ exc = "none"
    /\ txt \in StrsUpTo({"a", "b"}, MaxTxtLen)
    /\ length \in {PyInt(n) : n \in 0..MaxCut} \cup {PyNone}
    /\ result = <<>>
    /\ cols = PyNone /\ sort = PyNone
    /\ self_columns = <<>> /\ self_sort = PyNone /\ self_funcs = <<>>
    /\ dcts = <<>> /\ opts = NoOpts
    /\ table = <<>> /\ widths = <<>> /\ signs = <<>>
    /\ stdout = <<>> /\ ret = NoReturn
    /\ verbosity = 1 /\ writers = <<>> /\ written = <<>>

CallCut ==
    /\ pc = "call"
    /\ result' = cut(txt, length)
    /\ pc' = "returned"
    /\ UNCHANGED <<exc, cols, sort, self_columns, self_sort, self_funcs, opts,
                   argVars, fmtVars, xVars>>

NextCut == CallCut

SpecCut == InitCut /\ [][NextCut]_vars

\* C3: for every N > 0 and every string longer than N, cut gives the first
\* N-3 characters followed by '...', of length exactly N; a string of length
\* <= N is returned unchanged; for N = 0 or None the string is returned
\* unchanged whatever its length.
C3_CutToLength ==
    pc = "returned" =>
        IF length.t = "None" THEN result = txt
        ELSE IF length.v = 0 THEN result = txt
        ELSE IF Len(txt) <= length.v THEN result = txt
        ELSE /\ result = SubSeq(txt, 1, length.v - 3) \o Ellipsis
             /\ Len(result) = length.v

(***************************************************************************)
(* Records and the column accessors                                        *)
(*                                                                         *)
(* A record (dct) is a TLA+ record of its attributes; an attribute the row *)
(* does not hold is not a field, and reading it raises AttributeError.     *)
(* A call gives Return(value) or Raise(exception name).                    *)
(***************************************************************************)
Return(v) == [exc |-> "none", val |-> v]
Raise(e) == [exc |-> e]

PyList(l) == [t |-> "list", v |-> l]
PyDict(f) == [t |-> "dict", v |-> f]

\* d.name
Attr(d, name) ==
    IF name \in DOMAIN d THEN Return(d[name]) ELSE Raise("AttributeError")

\* The truth value of a Python value
Truthy(x) ==
    CASE x.t = "None" -> FALSE
      [] x.t \in {"int", "float"} -> x.v # 0
      [] OTHER -> Len(x.v) > 0

Digits == <<"0", "1", "2", "3", "4", "5", "6", "7", "8", "9">>

RECURSIVE NatStr(_)
NatStr(n) ==
    IF n < 10 THEN <<Digits[n + 1]>>
    ELSE NatStr(n \div 10) \o <<Digits[(n % 10) + 1]>>

\* '%d' % n, and str(n)
IntStr(n) == IF n < 0 THEN <<"-">> \o NatStr(-n) ELSE NatStr(n)

\* '%.3f' % x for the float x = k/16: the exact value rounded half-even to
\* thousandths, three decimals always.
FloatStr(k) ==
    LET a == IF k < 0 THEN -k ELSE k
        q == (a * 1000) \div 16
        r == (a * 1000) % 16
        m == IF r > 8 \/ (r = 8 /\ q % 2 = 1) THEN q + 1 ELSE q
        f == m % 1000
    IN  (IF k < 0 THEN <<"-">> ELSE <<>>) \o NatStr(m \div 1000) \o <<".">>
        \o <<Digits[(f \div 100) + 1], Digits[((f \div 10) % 10) + 1],
             Digits[(f % 10) + 1]>>

\* Lines 70-71, 76-77, 82-83, 105-106, 131-132
id(d) == Attr(d, "id")
user(d) == Attr(d, "user")
energy(d) == Attr(d, "energy")
calc(d) == Attr(d, "calculator")
charge(d) == Attr(d, "charge")

\* Lines 153-154
magmom(d) ==
    LET m == Attr(d, "magmom")
    IN  IF m.exc # "none" THEN m
        ELSE IF Truthy(m.val) THEN m ELSE Return(PyStr(<<>>))

\* sum(mask): the number of True entries
RECURSIVE CountTrue(_)
CountTrue(mask) ==
    IF mask = <<>> THEN 0
    ELSE (IF Head(mask) THEN 1 ELSE 0) + CountTrue(Tail(mask))

\* Lines 139-148
fixed(d) ==
    LET c == Attr(d, "constraints")
    IN  IF c.exc # "none" THEN c
        ELSE IF c.val.t = "None" THEN Return(PyStr(<<>>))
        ELSE IF Len(c.val.v) > 1 THEN Return(PyStr(<<"?">>))
        ELSE IF Len(c.val.v) = 0 THEN Raise("IndexError")
        ELSE LET c0 == c.val.v[1]
             IN  IF "mask" \in DOMAIN c0 THEN Return(PyInt(CountTrue(c0.mask)))
                 ELSE IF "indices" \in DOMAIN c0 THEN Return(PyInt(Len(c0.indices)))
                 ELSE Raise("KeyError")

\* (f**2).sum(axis=1): the squared magnitude of each atom's force
SquaredNorms(f) ==
    [a \in 1..Len(f) |-> f[a][1] * f[a][1] + f[a][2] * f[a][2] + f[a][3] * f[a][3]]

\* forces[np.invert(mask)]: the rows whose mask entry is False
RECURSIVE Unmasked(_, _)
Unmasked(f, mask) ==
    IF f = <<>> THEN <<>>
    ELSE (IF Head(mask) THEN <<>> ELSE <<Head(f)>>) \o Unmasked(Tail(f), Tail(mask))

SeqMax(l) == CHOOSE x \in {l[k] : k \in 1..Len(l)} : \A k \in 1..Len(l) : l[k] <= x

\* n**0.5 for the squares the modelled forces give
Sqrt(n) == CHOOSE r \in 0..n : r * r = n

\* Line 119: ValueError from max() of an empty array
ForceMax(f) ==
    IF f = <<>> THEN Raise("ValueError")
    ELSE Return(PyFloat(16 * Sqrt(SeqMax(SquaredNorms(f)))))

\* Lines 108-119.  The assignments of lines 111 and 113 only read d.forces:
\* f is assigned again by line 116 or 118.
fmax(d) ==
    LET c == Attr(d, "constraints")
        forces == Attr(d, "forces")
    IN  IF c.exc # "none" THEN c
        ELSE IF c.val.t = "None"
        THEN IF forces.exc # "none" THEN forces ELSE Raise("TypeError")
        ELSE IF Len(c.val.v) > 1 /\ forces.exc # "none" THEN forces
        ELSE IF Len(c.val.v) = 0 THEN Raise("IndexError")
        ELSE IF forces.exc # "none" THEN forces
        ELSE LET c0 == c.val.v[1]
             IN  IF "mask" \in DOMAIN c0
                 THEN ForceMax(Unmasked(forces.val.v, c0.mask))
                 ELSE ForceMax(forces.val.v)

NoneStr == <<"(", "n", "o", "n", "e", ")">>

\* str(value) for the values a key/value pair holds
Str(x) == IF x.t = "int" THEN IntStr(x.v) ELSE x.v

\* Lines 156-160: the closure keyval_factory(key) called on d
keyval_func(key, d) ==
    LET kv == Attr(d, "key_value_pairs")
    IN  IF kv.exc # "none" THEN kv
        ELSE IF key \in DOMAIN kv.val.v THEN Return(PyStr(Str(kv.val.v[key])))
        ELSE Return(PyStr(NoneStr))

\* The names getattr(self, col, None) finds a method for (lines 70-160).
col_id == <<"i","d">>
col_user == <<"u","s","e","r">>
col_energy == <<"e","n","e","r","g","y">>
col_calc == <<"c","a","l","c">>
col_charge == <<"c","h","a","r","g","e">>
col_magmom == <<"m","a","g","m","o","m">>
col_fixed == <<"f","i","x","e","d">>
col_fmax == <<"f","m","a","x">>

MethodNames ==
    {DefaultColumns[k] : k \in 1..Len(DefaultColumns)} \cup
    { <<"k","e","y","v","a","l","s">>, <<"d","a","t","a">>,
      <<"f","o","r","m","a","t">>,
      <<"k","e","y","v","a","l","_","f","a","c","t","o","r","y">> }

\* The attribute each of the other accessors reads before it computes with
\* ase or numpy (lines 74, 80, 86, 96, 102, 122, 137, 151).
FirstRead ==
    [c \in {DefaultColumns[k] : k \in {2, 4, 8, 9, 10, 12, 14, 16}} |->
        CASE c = DefaultColumns[2] -> "ctime"
          [] c = DefaultColumns[4] -> "numbers"
          [] c = DefaultColumns[8] -> "pbc"
          [] c = DefaultColumns[9] -> "pbc"
          [] c = DefaultColumns[10] -> "keywords"
          [] c = DefaultColumns[12] -> "numbers"
          [] c = DefaultColumns[14] -> "stress"
          [] c = DefaultColumns[16] -> "cell"]

\* Lines 64-68 and 178: the function bound to column col, called on d.  Of
\* the accessors that compute with ase or numpy (age, formula, pbc, size,
\* keywords, mass, smax, cell) only the AttributeError of a record without
\* the attribute they read is modelled; the modelled records hold none of
\* these attributes.
CallFunc(col, d) ==
    CASE col = col_id -> id(d)
      [] col = col_user -> user(d)
      [] col = col_energy -> energy(d)
      [] col = col_calc -> calc(d)
      [] col = col_charge -> charge(d)
      [] col = col_magmom -> magmom(d)
      [] col = col_fixed -> fixed(d)
      [] col = col_fmax -> fmax(d)
      [] col \in DOMAIN FirstRead /\ FirstRead[col] \notin DOMAIN d ->
            Raise("AttributeError")
      [] col \notin MethodNames -> keyval_func(col, d)

(***************************************************************************)
(* Formatter.format                                                        *)
(***************************************************************************)
\* The printable ASCII characters in code order, from ' ' to '~', without
\* the double quote, the backslash and the backquote.
Printable ==
    << " ", "!", "#", "$", "%", "&", "'", "(", ")", "*", "+", ",", "-",
       ".", "/", "0", "1", "2", "3", "4", "5", "6", "7", "8", "9", ":", ";",
       "<", "=", ">", "?", "@", "A", "B", "C", "D", "E", "F", "G", "H", "I",
       "J", "K", "L", "M", "N", "O", "P", "Q", "R", "S", "T", "U", "V", "W",
       "X", "Y", "Z", "[", "]", "^", "_", "a", "b", "c", "d", "e",
       "f", "g", "h", "i", "j", "k", "l", "m", "n", "o", "p", "q", "r", "s",
       "t", "u", "v", "w", "x", "y", "z", "{", "|", "}", "~" >>

\* The rank of a character: str comparison is by code, so by rank.
Ord(c) == CHOOSE k \in 1..Len(Printable) : Printable[k] = c

\* a < b for two str
StrLess(a, b) ==
    \/ Len(a) < Len(b) /\ SubSeq(b, 1, Len(a)) = a
    \/ \E k \in 1..Min(Len(a), Len(b)) :
          /\ SubSeq(a, 1, k - 1) = SubSeq(b, 1, k - 1)
          /\ Ord(a[k]) < Ord(b[k])

col_repeat == <<"r","e","p","e","a","t">>

\* Line 166: columns += ['repeat'] extends self.columns itself.
ColumnsAfterUniq(columns, o) ==
    IF o.uniq THEN Append(columns, col_repeat) ELSE columns

\* Lines 167-168: the header labels
Header(columns, o) ==
    IF o.wiki_table
    THEN [k \in 1..Len(columns) |-> <<"*">> \o columns[k] \o <<"*">>]
    ELSE columns

\* CellRaises with a handler that catches every exception.
CellRaisesCatchAll(o) == "none"

\* Lines 177-188: the exception that evaluating one cell raises out of
\* format, or "none".  An AttributeError of the accessor is caught; a value
\* that is no int, float or str reaches len(s), which raises TypeError.
CellRaises(o) ==
    IF o.exc = "AttributeError" THEN "none"
    ELSE IF o.exc # "none" THEN o.exc
    ELSE IF o.val.t \notin {"int", "float", "str"} THEN "TypeError"
    ELSE "none"

\* Lines 177-187: the cell string
CellStr(o) ==
    IF o.exc # "none" THEN <<>>
    ELSE CASE o.val.t = "int" -> IntStr(o.val.v)
           [] o.val.t = "float" -> FloatStr(o.val.v)
           [] OTHER -> o.val.v

\* CellFlipsSign with line 187 run for every cell.
CellFlipsSignAlways(o) == TRUE

\* Line 187: the cell makes its column left-adjusted.
CellFlipsSign(o) == o.exc = "none" /\ o.val.t \notin {"int", "float"}

\* Lines 188-189: the cell takes part in the running maximum.
CellCounts(o) == o.exc = "none"

\* The one element of a singleton.  {e(x) : x \in {v}} evaluates v once,
\* however often e uses x.
Only(S) == CHOOSE x \in S : TRUE

\* Line 178 for every record and column
Outcomes(funcs, recs) ==
    [r \in 1..Len(recs) |-> [i \in 1..Len(funcs) |-> CallFunc(funcs[i], recs[r])]]

\* Lines 174-192, given what the functions give (out) and the cells that
\* raise.  The first of them in row order ends the loop.
TableOf(out, raising, funcs, ncols, recs) ==
    IF raising # {}
    THEN LET first == CHOOSE p \in raising :
                          \A q \in raising :
                              p[1] < q[1] \/ (p[1] = q[1] /\ p[2] <= q[2])
         IN  [exc |-> CellRaises(out[first[1]][first[2]])]
    ELSE [exc |-> "none",
          rows |-> [r \in 1..Len(recs) |->
                       [i \in 1..Len(funcs) |-> PyStr(CellStr(out[r][i]))]],
          widths |-> [i \in 1..ncols |->
                         Only({IF lens = {} THEN 0
                               ELSE CHOOSE w \in lens : \A x \in lens : x <= w :
                               lens \in {IF i > Len(funcs) THEN {}
                                         ELSE {Len(CellStr(out[r][i])) :
                                                  r \in {x \in 1..Len(recs) :
                                                            CellCounts(out[x][i])}}}})],
          signs |-> [i \in 1..ncols |->
                        IF i <= Len(funcs) /\
                           \E r \in 1..Len(recs) : CellFlipsSign(out[r][i])
                        THEN -1 ELSE 1],
          ids |-> [r \in 1..Len(recs) |-> recs[r].id]]

\* Lines 174-192.  funcs are the columns bound at construction; the widths
\* and signs lists have one entry per header label.
BuildTable(funcs, ncols, recs) ==
    Only({Only({TableOf(out, raising, funcs, ncols, recs) :
                   raising \in {{p \in (1..Len(recs)) \X (1..Len(funcs)) :
                                    CellRaises(out[p[1]][p[2]]) # "none"}}}) :
             out \in {Outcomes(funcs, recs)}})

\* list.index(x) for x in list
index(list, x) ==
    CHOOSE j \in 1..Len(list) : list[j] = x /\ \A m \in 1..(j - 1) : list[m] # x

\* row put after the rows of the sorted list whose key is not greater
InsertRow(front, row, n) ==
    LET after == {j \in 1..Len(front) : StrLess(row[n].v, front[j][n].v)}
        k == IF after = {} THEN Len(front) + 1
             ELSE CHOOSE j \in after : \A m \in after : j <= m
    IN  SubSeq(front, 1, k - 1) \o <<row>> \o SubSeq(front, k, Len(front))

\* Line 197: list.sort(key=lambda row: row[n]) is stable.
RECURSIVE SortedBy(_, _)
SortedBy(rows, n) ==
    IF rows = <<>> THEN <<>>
    ELSE Only({InsertRow(front, rows[Len(rows)], n) :
                  front \in {SortedBy(SubSeq(rows, 1, Len(rows) - 1), n)}})

\* UniqLoop without the reset of count at line 211.
RECURSIVE UniqLoopNoReset(_, _, _, _)
UniqLoopNoReset(rows, first_row, count, acc) ==
    IF rows = <<>> THEN Append(acc, Append(first_row, PyInt(count)))
    ELSE IF Head(rows) = first_row
    THEN UniqLoopNoReset(Tail(rows), first_row, count + 1, acc)
    ELSE UniqLoopNoReset(Tail(rows), Head(rows), count + 1,
                         Append(acc, Append(first_row, PyInt(count))))

\* Lines 204-211: the loop over the rows after the first, with first_row and
\* count carried along; lines 213-214 append the last group.
RECURSIVE UniqLoop(_, _, _, _)
UniqLoop(rows, first_row, count, acc) ==
    IF rows = <<>> THEN Append(acc, Append(first_row, PyInt(count)))
    ELSE IF Head(rows) = first_row
    THEN UniqLoop(Tail(rows), first_row, count + 1, acc)
    ELSE UniqLoop(Tail(rows), Head(rows), 1,
                  Append(acc, Append(first_row, PyInt(count))))

\* Lines 201-216 for the data rows (the header is set aside by line 201).
Uniq(rows) == UniqLoop(Tail(rows), Head(rows), 1, <<>>)

\* Lines 209 and 214: the last width grows to the longest count.
UniqWidths(w, urows) ==
    [w EXCEPT ![Len(w)] =
        LET lens == {Len(IntStr(urows[r][Len(urows[r])].v)) : r \in 1..Len(urows)}
        IN  Max(w[Len(w)], CHOOSE x \in lens : \A y \in lens : y <= x)]

\* FinalWidth without the "w and" of line 218.
FinalWidthFloor(w, label) == Max(w, Len(label))

\* Lines 218-219: w and max(w, len(col))
FinalWidth(w, label) == IF w = 0 THEN 0 ELSE Max(w, Len(label))

Spaces(n) == [k \in 1..n |-> " "]

\* '%*s' % (w, s): right-adjusted for w >= 0, left-adjusted to -w for w < 0
Pad(w, s) ==
    IF w >= 0 THEN Spaces(w - Len(s)) \o s
    ELSE s \o Spaces((-w) - Len(s))

\* '|'.join(parts)
RECURSIVE join(_, _)
join(sep, parts) ==
    IF parts = <<>> THEN <<>>
    ELSE IF Len(parts) = 1 THEN parts[1]
    ELSE parts[1] \o sep \o join(sep, Tail(parts))

\* The elements of list at the positions in keep, in order
RECURSIVE Select(_, _, _)
Select(list, keep, k) ==
    IF k > Len(list) THEN <<>>
    ELSE (IF k \in keep THEN <<list[k]>> ELSE <<>>) \o Select(list, keep, k + 1)

\* Lines 225-229: one printed line
Line(row, w, sg, o) ==
    LET n == Min(Len(row), Len(w))
        cells == [k \in 1..n |-> Pad(w[k] * sg[k], Str(row[k]))]
        kept == {k \in 1..n : w[k] > 0}
        line == join(<<"|">>, Select(cells, kept, 1))
    IN  IF o.wiki_table THEN <<"|">> \o line \o <<"|">> ELSE line

\* Lines 218-232: the final widths, the printed lines, the returned pair
Printed(selfcols, columns, rows, w, sg, ids, o) ==
    Only({[exc |-> "none", self_columns |-> selfcols, table |-> tbl,
           widths |-> w, signs |-> sg,
           stdout |-> IF o.list_columns THEN <<>>
                      ELSE [r \in 1..Len(tbl) |-> Line(tbl[r], w, sg, o)],
           ret |-> [ids |-> ids,
                    columns |-> Select(columns, {k \in 1..Len(w) : w[k] > 0}, 1)]] :
             tbl \in {<<[k \in 1..Len(columns) |-> PyStr(columns[k])]>> \o rows}})

\* Lines 200-219: the uniq rows and the widths
Collapsed(selfcols, columns, sorted, built, o) ==
    Only({Only({Printed(selfcols, columns, rows, w, built.signs, built.ids, o) :
                   w \in {[k \in 1..Len(columns) |->
                              FinalWidth((IF o.uniq
                                          THEN UniqWidths(built.widths, rows)
                                          ELSE built.widths)[k],
                                         columns[k])]}}) :
             rows \in {IF o.uniq THEN Uniq(sorted) ELSE sorted}})

\* Lines 194-198 and on, for a table that was built
Sorted(selfcols, columns, built, funcs, srt, o) ==
    LET failed(e) == [exc |-> e, self_columns |-> selfcols, table |-> <<>>,
                      widths |-> <<>>, signs |-> <<>>, stdout |-> <<>>,
                      ret |-> NoReturn]
    IN  IF built.exc # "none" THEN failed(built.exc)
        ELSE IF ~Truthy(srt) THEN Collapsed(selfcols, columns, built.rows, built, o)
        ELSE IF ~In(srt.v, selfcols) THEN failed("ValueError")
        ELSE IF index(selfcols, srt.v) > Len(funcs) THEN failed("IndexError")
        ELSE Only({Collapsed(selfcols, columns, sorted, built, o) :
                      sorted \in {SortedBy(built.rows, index(selfcols, srt.v))}})

\* Lines 162-232 for a formatter with the given columns, funcs and sort,
\* called on a non-empty list of records.
FormatResult(columns0, funcs, srt, recs, o) ==
    Only({Only({Only({Sorted(selfcols, columns, built, funcs, srt, o) :
                         built \in {BuildTable(funcs, Len(columns), recs)}}) :
                   columns \in {Header(selfcols, o)}}) :
             selfcols \in {ColumnsAfterUniq(columns0, o)}})

(***************************************************************************)
(* Formatter(cols, sort).format(dcts, opts) on selected records            *)
(***************************************************************************)
\* The most records selected.
MaxRecords == 3

col_k == <<"k">>

\* The rows the records are drawn from, without their id: select gives the
\* k-th record the id k.
RowPool ==
    { [user |-> PyStr(<<"a">>), magmom |-> PyFloat(33), charge |-> PyInt(0),
       key_value_pairs |-> PyDict([x \in {col_k} |-> PyInt(7)])],
      [user |-> PyStr(<<"b", "b">>), magmom |-> PyFloat(0), charge |-> PyInt(-1),
       key_value_pairs |-> PyDict([x \in {} |-> PyInt(0)])],
      [user |-> PyStr(<<"a">>), charge |-> PyInt(0)],
      [user |-> PyStr(<<"a">>), magmom |-> PyFloat(33), charge |-> PyInt(0),
       constraints |-> PyNone,
       forces |-> [t |-> "array", v |-> << <<3, 4, 0>> >>]] }

WithId(row, k) ==
    [a \in DOMAIN row \cup {"id"} |-> IF a = "id" THEN PyInt(k) ELSE row[a]]

Selections ==
    UNION {{[k \in 1..n |-> WithId(rows[k], k)] : rows \in [1..n -> RowPool]} :
              n \in 1..MaxRecords}

\* -c values: 'user', 'magmom', 'user,magmom', 'magmom,charge',
\* 'charge,k', 'user,fmax'
TableSpecs ==
    { col_user, col_magmom, col_user \o <<",">> \o col_magmom,
      col_magmom \o <<",">> \o col_charge, col_charge \o <<",">> \o col_k,
      col_user \o <<",">> \o col_fmax }

InitFormat ==
    /\ pc = "new"
    /\ exc = "none"
    /\ cols \in {PyStr(s) : s \in TableSpecs}
    /\ sort \in {PyNone, PyStr(col_user), PyStr(col_magmom)}
    /\ dcts \in Selections
    /\ opts \in [uniq : BOOLEAN, wiki_table : BOOLEAN, list_columns : BOOLEAN]
    /\ self_columns = <<>> /\ self_sort = PyNone /\ self_funcs = <<>>
    /\ txt = <<>> /\ length = PyNone /\ result = <<>>
    /\ table = <<>> /\ widths = <<>> /\ signs = <<>>
    /\ stdout = <<>> /\ ret = NoReturn
    /\ verbosity = 1 /\ writers = <<>> /\ written = <<>>

\* f.format(dcts, opts), which run calls for a non-empty selection at
\* verbosity 1 or more (lines 260, 271-272)
format ==
    /\ pc = "constructed"
    /\ Len(dcts) > 0
    /\ verbosity >= 1
    /\ \E r \in {FormatResult(self_columns, self_funcs, self_sort, dcts, opts)} :
           /\ exc' = r.exc
           /\ pc' = IF r.exc = "none" THEN "formatted" ELSE "raised"
           /\ self_columns' = r.self_columns
           /\ table' = r.table
           /\ widths' = r.widths
           /\ signs' = r.signs
           /\ stdout' = r.stdout
           /\ ret' = r.ret
    /\ UNCHANGED <<cols, sort, self_sort, self_funcs, result, opts, argVars,
                   xVars>>

NextFormat == Formatter__init__ \/ format

SpecFormat == InitFormat /\ [][NextFormat]_vars

(***************************************************************************)
(* The table of Formatter.format: C4 .. C8                                 *)
(***************************************************************************)
\* What column k's function gives for record r
Outcome(r, k) == CallFunc(self_funcs[k], dcts[r])

\* The cell the claims expect for record r, column k: '' for a caught
\* AttributeError, zero decimals for an int, three for a float, otherwise
\* the str itself.
ExpectedCell(r, k) ==
    LET o == Outcome(r, k)
    IN  IF o.exc = "AttributeError" THEN <<>>
        ELSE IF o.val.t = "int" THEN IntStr(o.val.v)
        ELSE IF o.val.t = "float" THEN FloatStr(o.val.v)
        ELSE o.val.v

ExpectedRow(r) == [k \in 1..Len(self_funcs) |-> PyStr(ExpectedCell(r, k))]

Sorting == Truthy(self_sort)

\* The record behind each row after the sort: the records in selection
\* order, or stably ordered by the sort column's cell.
RecordOrder ==
    IF Sorting
    THEN LET n == index(self_columns, self_sort.v)
             tagged == [r \in 1..Len(dcts) |-> Append(ExpectedRow(r), PyInt(r))]
             sorted == SortedBy(tagged, n)
         IN  [j \in 1..Len(dcts) |-> sorted[j][Len(self_funcs) + 1].v]
    ELSE [j \in 1..Len(dcts) |-> j]

PostSortRows == [j \in 1..Len(dcts) |-> ExpectedRow(RecordOrder[j])]

DataRows == Tail(table)

\* With uniq: a data row's trailing count and its cells before the count
RepeatOf(row) == row[Len(row)].v
CellsOf(row) == SubSeq(row, 1, Len(row) - 1)

RECURSIVE SumRepeats(_)
SumRepeats(rows) ==
    IF rows = <<>> THEN 0 ELSE RepeatOf(Head(rows)) + SumRepeats(Tail(rows))

\* Each row written out as many times as its count says
RECURSIVE Expand(_)
Expand(rows) ==
    IF rows = <<>> THEN <<>>
    ELSE [k \in 1..RepeatOf(Head(rows)) |-> CellsOf(Head(rows))]
         \o Expand(Tail(rows))

\* The record behind data row j of the final table
Origin(j) ==
    IF opts.uniq
    THEN RecordOrder[SumRepeats(SubSeq(DataRows, 1, j - 1)) + 1]
    ELSE RecordOrder[j]

IsDigit(c) == \E k \in 1..10 : Digits[k] = c

Unsigned(str) == IF Len(str) > 0 /\ str[1] = "-" THEN Tail(str) ELSE str

\* Digits only, after an optional sign
ZeroDecimals(str) ==
    /\ Len(Unsigned(str)) >= 1
    /\ \A k \in 1..Len(Unsigned(str)) : IsDigit(Unsigned(str)[k])

\* Digits, a point, exactly three digits
ThreeDecimals(str) ==
    LET u == Unsigned(str)
    IN  /\ Len(u) >= 5
        /\ u[Len(u) - 3] = "."
        /\ \A k \in 1..Len(u) : k # Len(u) - 3 => IsDigit(u[k])

C5_UniqPrintsNoDuplicateRows ==
    (pc = "formatted" /\ opts.uniq) =>
        \A i, j \in 1..Len(DataRows) :
            CellsOf(DataRows[i]) = CellsOf(DataRows[j]) => i = j

LongestCell(k) ==
    LET lens == {Len(Str(DataRows[r][k])) : r \in 1..Len(DataRows)}
    IN  CHOOSE x \in lens : \A y \in lens : y <= x

Label(k) == table[1][k].v

Kept == {k \in 1..Len(widths) : widths[k] > 0}

RECURSIVE SumOver(_, _)
SumOver(f, set) ==
    IF set = {} THEN 0
    ELSE LET x == CHOOSE y \in set : TRUE
         IN  f[x] + SumOver(f, set \ {x})

\* The length of a printed line that holds the columns in set
LineLength(set) ==
    SumOver(widths, set) + Max(0, Cardinality(set) - 1)
    + (IF opts.wiki_table THEN 2 ELSE 0)

\* C6 as stated: the final width of every column is max(longest rendered
\* cell, header label length), so a column whose cells are all empty is
\* printed at its header's width.
C6_WidthIsMaxOfCellsAndHeader ==
    pc = "formatted" =>
        /\ \A k \in 1..Len(widths) : widths[k] = Max(LongestCell(k), Len(Label(k)))
        /\ ~opts.list_columns =>
              \A r \in 1..Len(stdout) : Len(stdout[r]) = LineLength(1..Len(widths))

\* C6 amended: the final width of a column is 0 when all its cells are
\* empty strings and max(longest rendered cell, header label length)
\* otherwise; the printed lines and the returned column list hold exactly the
\* columns of non-zero width, so a column whose cells are all empty is left
\* out, header included.
C6_WidthIsZeroOrMax ==
    pc = "formatted" =>
        /\ Len(widths) = Len(table[1])
        /\ \A k \in 1..Len(widths) :
              widths[k] = IF LongestCell(k) = 0 THEN 0
                          ELSE Max(LongestCell(k), Len(Label(k)))
        /\ ret.columns = Select([k \in 1..Len(table[1]) |-> Label(k)],
                                {k \in 1..Len(table[1]) : LongestCell(k) > 0}, 1)
        /\ ~opts.list_columns =>
              /\ Len(stdout) = Len(table)
              /\ \A r \in 1..Len(stdout) : Len(stdout[r]) = LineLength(Kept)

\* A two-column table whose second column holds empty cells only and is
\* dropped, and whose first column is as wide as its header label.
C6_Witness ==
    /\ pc = "formatted" /\ ~opts.list_columns
    /\ Len(widths) = 2 /\ Len(DataRows) >= 2
    /\ widths[2] = 0 /\ widths[1] = Len(Label(1)) /\ LongestCell(1) < widths[1]

\* The text of data row j, column k
CellText(j, k) == Str(DataRows[j][k])

IsNumeric(o) == o.exc = "none" /\ o.val.t \in {"int", "float"}

\* Some record gives column k a value that is no number.
HasTextValue(k) ==
    k <= Len(self_funcs) /\
    \E r \in 1..Len(dcts) : Outcome(r, k).exc = "none" /\ ~IsNumeric(Outcome(r, k))

RightAdjusted(str, w) == Spaces(w - Len(str)) \o str
LeftAdjusted(str, w) == str \o Spaces(w - Len(str))

Wrapped(line) == IF opts.wiki_table THEN <<"|">> \o line \o <<"|">> ELSE line

\* The numeric cells have the decimals of their type.
NumbersRendered ==
    \A j \in 1..Len(DataRows), k \in 1..Len(self_funcs) :
        LET o == Outcome(Origin(j), k)
        IN  /\ (o.exc = "none" /\ o.val.t = "int") => ZeroDecimals(CellText(j, k))
            /\ (o.exc = "none" /\ o.val.t = "float") => ThreeDecimals(CellText(j, k))

\* C7 as stated: every cell computed from an int has zero decimals and is
\* right-justified to its column width, every cell computed from a float
\* has three decimals and is right-justified, every non-numeric cell is
\* left-justified, cell by cell, also in a column that holds both.
C7_AlignmentPerCell ==
    (pc = "formatted" /\ ~opts.list_columns) =>
        /\ NumbersRendered
        /\ \A j \in 1..Len(DataRows) :
              stdout[j + 1] =
                 Wrapped(join(<<"|">>,
                    Select([k \in 1..Len(DataRows[j]) |->
                               IF k > Len(self_funcs) \/ IsNumeric(Outcome(Origin(j), k))
                               THEN RightAdjusted(CellText(j, k), widths[k])
                               ELSE LeftAdjusted(CellText(j, k), widths[k])],
                           Kept, 1)))

\* C7 amended: every cell computed from an int has zero decimals and every
\* cell computed from a float three; alignment is per column: a column is
\* left-justified, header and numeric cells included, when some record
\* gives it a non-numeric value, and right-justified otherwise (the count
\* column of uniq too).
C7_AlignmentPerColumn ==
    (pc = "formatted" /\ ~opts.list_columns) =>
        /\ NumbersRendered
        /\ \A j \in 1..Len(table) :
              stdout[j] =
                 Wrapped(join(<<"|">>,
                    Select([k \in 1..Len(table[j]) |->
                               IF HasTextValue(k)
                               THEN LeftAdjusted(Str(table[j][k]), widths[k])
                               ELSE RightAdjusted(Str(table[j][k]), widths[k])],
                           Kept, 1)))

\* A column that holds a float cell narrower than the column and a
\* returned '' cell.
C7_Witness ==
    /\ pc = "formatted" /\ ~opts.list_columns
    /\ \E k \in 1..Len(self_funcs), i, j \in 1..Len(DataRows) :
          /\ IsNumeric(Outcome(Origin(i), k))
          /\ Len(CellText(i, k)) < widths[k]
          /\ Outcome(Origin(j), k) = Return(PyStr(<<>>))

Cells == (1..Len(dcts)) \X (1..Len(self_funcs))

\* C8: an accessor's AttributeError makes that one cell '' and the table is
\* built all the same: every record yields one row with one cell per
\* column, and every cell is what its own accessor result gives.  Any other
\* exception of an accessor ends format before a line is written.
C8_AttributeErrorIsEmptyCell ==
    /\ (pc = "raised" /\ self_funcs # <<>>) =>
          /\ exc # "AttributeError"
          /\ stdout = <<>>
    /\ (pc \in {"formatted", "raised"} /\
        \E c \in Cells : Outcome(c[1], c[2]).exc \notin {"none", "AttributeError"}) =>
          /\ pc = "raised"
          /\ \E c \in Cells : Outcome(c[1], c[2]).exc = exc
          /\ stdout = <<>>
    /\ pc = "formatted" =>
          /\ (IF opts.uniq THEN SumRepeats(DataRows) ELSE Len(DataRows)) = Len(dcts)
          /\ \A j \in 1..Len(DataRows) :
                /\ Len(DataRows[j]) = Len(self_funcs) + (IF opts.uniq THEN 1 ELSE 0)
                /\ \A k \in 1..Len(self_funcs) :
                      DataRows[j][k] = PyStr(ExpectedCell(Origin(j), k))
          /\ ret.ids = [r \in 1..Len(dcts) |-> dcts[r].id]

\* A table with a cell emptied by an AttributeError beside a non-empty cell
\* of the same column.
C8_Witness ==
    /\ pc = "formatted" /\ ~opts.list_columns
    /\ \E k \in 1..Len(self_funcs), i, j \in 1..Len(DataRows) :
          /\ Outcome(Origin(i), k).exc = "AttributeError"
          /\ CellText(i, k) = <<>>
          /\ CellText(j, k) # <<>>

(***************************************************************************)
(* The fmax column: C10                                                    *)
(***************************************************************************)
\* The most atoms of a record and the most constraints it carries.
MaxAtoms == 2
MaxConstraints == 2

ForceVectors == { <<0, 0, 1>>, <<3, 4, 0>> }

\* A constraint dict holds a boolean mask or explicit indices.
ConstraintDicts ==
    {[mask |-> m] : m \in [1..MaxAtoms -> BOOLEAN]} \cup {[indices |-> <<1>>]}

ConstraintsValues ==
    {PyNone} \cup
    UNION {{PyList(l) : l \in [1..n -> ConstraintDicts]} : n \in 0..MaxConstraints}

ForcesValues == {[t |-> "array", v |-> f] : f \in [1..MaxAtoms -> ForceVectors]}

\* Rows with or without constraints and forces
FmaxRows ==
    {[id |-> PyInt(1)]}
    \cup {[id |-> PyInt(1), constraints |-> c] : c \in ConstraintsValues}
    \cup {[id |-> PyInt(1), forces |-> f] : f \in ForcesValues}
    \cup {[id |-> PyInt(1), constraints |-> c, forces |-> f] :
             c \in ConstraintsValues, f \in ForcesValues}

\* db-dump.py -c fmax on a selection of one record
InitFmax ==
    /\ pc = "new"
    /\ exc = "none"
    /\ cols = PyStr(col_fmax)
    /\ sort = PyNone
    /\ dcts \in {<<d>> : d \in FmaxRows}
    /\ opts = [uniq |-> FALSE, wiki_table |-> FALSE, list_columns |-> FALSE]
    /\ self_columns = <<>> /\ self_sort = PyNone /\ self_funcs = <<>>
    /\ txt = <<>> /\ length = PyNone /\ result = <<>>
    /\ table = <<>> /\ widths = <<>> /\ signs = <<>>
    /\ stdout = <<>> /\ ret = NoReturn
    /\ verbosity = 1 /\ writers = <<>> /\ written = <<>>

SpecFmax == InitFmax /\ [][NextFormat]_vars

\* The largest force magnitude over the given atoms, as the fmax cell shows it
MaxForceCell(f) == FloatStr(16 * Sqrt(SeqMax(SquaredNorms(f))))

\* C10: fmax leaves the masked atoms out only for a record with exactly one
\* constraint that carries a mask; with more than one constraint the maximum
\* is over the forces of all atoms, whatever the masks; with constraints None
\* the accessor's error is propagated, not rendered as an empty cell.
C10_FmaxMasksOnlySingleConstraint ==
    (pc \in {"formatted", "raised"} /\ self_funcs = <<col_fmax>> /\
     "constraints" \in DOMAIN dcts[1] /\ "forces" \in DOMAIN dcts[1]) =>
        LET c == dcts[1].constraints
            f == dcts[1].forces.v
        IN  IF c.t = "None" THEN pc = "raised"
            ELSE IF Len(c.v) = 1 /\ "mask" \in DOMAIN c.v[1]
            THEN Unmasked(f, c.v[1].mask) # <<>> =>
                    /\ pc = "formatted"
                    /\ table[2][1].v = MaxForceCell(Unmasked(f, c.v[1].mask))
            ELSE Len(c.v) >= 1 =>
                    /\ pc = "formatted"
                    /\ table[2][1].v = MaxForceCell(f)

(***************************************************************************)
(* run                                                                     *)
(***************************************************************************)
\* The keys of a key/value dict in its iteration order (the modelled dicts
\* hold one key at most, so the order is theirs).
RECURSIVE KeysOf(_)
KeysOf(keyset) ==
    IF keyset = {} THEN <<>>
    ELSE LET x == CHOOSE y \in keyset : TRUE
         IN  <<x>> \o KeysOf(keyset \ {x})

\* Lines 262-267: every key of every record, once, in order of appearance
RECURSIVE AllKeys(_, _)
AllKeys(recs, keys) ==
    IF recs = <<>> THEN keys
    ELSE LET d == Head(recs)
             own == IF "key_value_pairs" \in DOMAIN d
                    THEN KeysOf(DOMAIN d.key_value_pairs.v) ELSE <<>>
             new == Select(own, {k \in 1..Len(own) : ~In(own[k], keys)}, 1)
         IN  AllKeys(Tail(recs), keys \o new)

\* Line 268: ','.join(['+' + key for key in keys])
PlusKeys(keys) == join(<<",">>, [k \in 1..Len(keys) |-> <<"+">> \o keys[k]])

\* template % i for an int i and a template over 'a', 'd' and '%': '%d'
\* takes the argument, '%%' is a percent sign, '%a' is no conversion, a
\* final '%' is incomplete.  used tells whether the argument is taken.
RECURSIVE PercentLoop(_, _, _, _)
PercentLoop(tpl, i, used, acc) ==
    IF tpl = <<>>
    THEN IF used THEN Return(PyStr(acc)) ELSE Raise("TypeError")
    ELSE IF Head(tpl) # "%" THEN PercentLoop(Tail(tpl), i, used, Append(acc, Head(tpl)))
    ELSE IF Len(tpl) = 1 THEN Raise("ValueError")
    ELSE IF tpl[2] = "%" THEN PercentLoop(From(tpl, 2), i, used, Append(acc, "%"))
    ELSE IF tpl[2] = "d"
    THEN IF used THEN Raise("TypeError")
         ELSE PercentLoop(From(tpl, 2), i, TRUE, acc \o IntStr(i))
    ELSE Raise("ValueError")

Percent(tpl, i) == PercentLoop(tpl, i, FALSE, <<>>)

\* ase.db.cli.plural(n, 'row'), printed by line 255
Plural(n) ==
    IntStr(n) \o <<" ", "r", "o", "w">> \o (IF n = 1 THEN <<>> ELSE <<"s">>)

\* Lines 236-268: the count path, the empty selection, and the column spec
\* handed to Formatter.
run_select ==
    /\ pc = "run"
    /\ IF opts.count
       THEN /\ stdout' = <<Plural(Len(dcts))>>
            /\ opts' = [opts EXCEPT !.limit = 0]
            /\ pc' = "done"
            /\ UNCHANGED <<cols, sort>>
       ELSE /\ stdout' = stdout
            /\ LET rewrite == Len(dcts) > 0 /\ (opts.include_all \/ opts.list_columns)
                   o1 == [opts EXCEPT !.limit = IF opts.uniq THEN 0 ELSE @]
               IN  opts' = IF rewrite
                           THEN [o1 EXCEPT !.columns = PyStr(PlusKeys(AllKeys(dcts, <<>>)))]
                           ELSE o1
            /\ IF Len(dcts) > 0
               THEN pc' = "new" /\ cols' = opts'.columns /\ sort' = opts.sort
               ELSE pc' = "done" /\ UNCHANGED <<cols, sort>>
    /\ UNCHANGED <<exc, self_columns, self_sort, self_funcs, result, argVars,
                   table, widths, signs, ret, xVars>>

\* Line 271 at verbosity 0: format is not called, columns stays unbound.
run_quiet ==
    /\ pc = "constructed"
    /\ verbosity < 1
    /\ pc' = "unformatted"
    /\ UNCHANGED <<exc, cols, sort, self_columns, self_sort, self_funcs, result,
                   opts, argVars, fmtVars, xVars>>

COLUMN == <<"C", "O", "L", "U", "M", "N", " ">>

\* Lines 273-279
run_columns ==
    /\ pc \in {"formatted", "unformatted"}
    /\ IF verbosity > 1 \/ opts.list_columns
       THEN IF pc = "unformatted"
            THEN /\ pc' = "raised" /\ exc' = "UnboundLocalError"
                 /\ stdout' = stdout
            ELSE /\ stdout' = stdout \o
                        [k \in 1..Len(ret.columns) |->
                            IF opts.list_columns THEN ret.columns[k]
                            ELSE COLUMN \o ret.columns[k]]
                 /\ pc' = IF opts.list_columns THEN "done" ELSE "extract"
                 /\ exc' = exc
       ELSE pc' = "extract" /\ exc' = exc /\ stdout' = stdout
    /\ UNCHANGED <<cols, sort, self_columns, self_sort, self_funcs, result, opts,
                   argVars, table, widths, signs, ret, xVars>>

\* Line 290's text up to the reprs of the Atoms and of the writer, which
\* are quippy's.
Writing(i) ==
    <<"W","r","i","t","i","n","g"," ","c","o","n","f","i","g"," ">> \o IntStr(i)

HasPercent(tpl) == In("%", tpl)

\* Lines 284-291 when no '%' is in the template: every record goes to the
\* writer with the given number.
WritesTo(w, recs) == [k \in 1..Len(recs) |-> [writer |-> w, config |-> recs[k].id]]

\* WritesEach with the writer opened once, before the loop.
WritesEachShared(recs) == WritesTo(1, recs)

\* Lines 284-291 with a '%' in the template: record i gets a writer of its own.
WritesEach(recs) == [k \in 1..Len(recs) |-> [writer |-> k, config |-> recs[k].id]]

\* Lines 281-291.  AtomsWriter, dict2atoms and write are quippy's and are
\* taken to succeed.  template % i fails for every i or for none, so a
\* failure is at the first record, before a writer is opened.
run_extract ==
    /\ pc = "extract"
    /\ IF opts.extract.t = "None"
       THEN pc' = "done" /\ UNCHANGED <<exc, stdout, xVars>>
       ELSE IF ~HasPercent(opts.extract.v)
       THEN /\ writers' = <<opts.extract.v>>
            /\ written' = WritesTo(1, dcts)
            /\ stdout' = stdout \o (IF verbosity > 1
                                    THEN [k \in 1..Len(dcts) |-> Writing(k - 1)]
                                    ELSE <<>>)
            /\ pc' = "done" /\ exc' = exc
       ELSE IF Percent(opts.extract.v, 0).exc # "none"
       THEN /\ pc' = "raised_extract"
            /\ exc' = Percent(opts.extract.v, 0).exc
            /\ UNCHANGED <<stdout, xVars>>
       ELSE /\ writers' = [k \in 1..Len(dcts) |-> Percent(opts.extract.v, k - 1).val.v]
            /\ written' = WritesEach(dcts)
            /\ stdout' = stdout \o (IF verbosity > 1
                                    THEN [k \in 1..Len(dcts) |-> Writing(k - 1)]
                                    ELSE <<>>)
            /\ pc' = "done" /\ exc' = exc
    /\ UNCHANGED <<cols, sort, self_columns, self_sort, self_funcs, result, opts,
                   argVars, table, widths, signs, ret>>

\* -x values: none, 'a', 'a%d', '%d%d', 'a%', '%%a'
Templates ==
    { PyNone, PyStr(<<"a">>), PyStr(<<"a", "%", "d">>),
      PyStr(<<"%", "d", "%", "d">>), PyStr(<<"a", "%">>),
      PyStr(<<"%", "%", "a">>) }

\* Rows of the selection: with a key/value pair, bare, and one whose fmax
\* raises TypeError.
RunPool ==
    { [user |-> PyStr(<<"a">>),
       key_value_pairs |-> PyDict([x \in {col_k} |-> PyInt(7)])],
      [user |-> PyStr(<<"b", "b">>)],
      [user |-> PyStr(<<"a">>), constraints |-> PyNone,
       forces |-> [t |-> "array", v |-> << <<3, 4, 0>> >>]] }

RunSelections ==
    UNION {{[k \in 1..n |-> WithId(rows[k], k)] : rows \in [1..n -> RunPool]} :
              n \in 0..MaxRecords}

InitRun ==
    /\ pc = "run"
    /\ exc = "none"
    /\ cols = PyNone /\ sort = PyNone
    /\ dcts \in RunSelections
    /\ verbosity \in {0, 1, 2}
    /\ opts \in [count : BOOLEAN, uniq : {FALSE}, limit : {500},
                 list_columns : BOOLEAN, include_all : BOOLEAN,
                 columns : {PyStr(col_user), PyStr(col_user \o <<",">> \o col_fmax)},
                 sort : {PyNone}, wiki_table : {FALSE}, extract : Templates]
    /\ self_columns = <<>> /\ self_sort = PyNone /\ self_funcs = <<>>
    /\ txt = <<>> /\ length = PyNone /\ result = <<>>
    /\ table = <<>> /\ widths = <<>> /\ signs = <<>>
    /\ stdout = <<>> /\ ret = NoReturn
    /\ writers = <<>> /\ written = <<>>

NextRun ==
    \/ run_select
    \/ Formatter__init__
    \/ format
    \/ run_quiet
    \/ run_columns
    \/ run_extract

SpecRun == InitRun /\ [][NextRun]_vars

(***************************************************************************)
(* The extraction path of run: C9                                          *)
(***************************************************************************)
Ended == pc \in {"done", "raised", "raised_extract"}

Extracting == Ended /\ opts.extract.t = "str" /\ Len(dcts) > 0

WrittenConfigs == [k \in 1..Len(written) |-> written[k].config]
SelectedIds == [k \in 1..Len(dcts) |-> dcts[k].id]

\* The template formats an int: template % 0 raises nothing.
FormatsInt(tpl) == Percent(tpl, 0).exc = "none"

\* C9 as stated: whenever a template is supplied and records match, every
\* matching record is written exactly once, in selection order: to the one
\* writer opened if the template has no '%', else record i to a writer of
\* its own, opened with template % i.
C9_EveryRecordExtracted ==
    Extracting =>
        /\ WrittenConfigs = SelectedIds
        /\ IF ~HasPercent(opts.extract.v)
           THEN /\ writers = <<opts.extract.v>>
                /\ \A k \in 1..Len(written) : written[k].writer = 1
           ELSE FormatsInt(opts.extract.v) =>
                /\ Len(writers) = Len(dcts)
                /\ \A k \in 1..Len(written) :
                      /\ writers[k] = Percent(opts.extract.v, k - 1).val.v
                      /\ written[k].writer = k

\* C9 amended: when a template is supplied, records match, neither --count
\* nor --list-columns is given and nothing raises before the extraction
\* step, every matching record is written exactly once, in selection order:
\* to the one writer opened if the template has no '%'; record i to a writer
\* of its own, opened with template % i, if the template formats an int; and
\* if a template with a '%' does not, the error ends run before a writer is
\* opened.  With --count, with --list-columns or after an exception of the
\* Formatter or the table, nothing is written.
C9_ExtractedUnlessCountOrList ==
    Extracting =>
        IF opts.count \/ opts.list_columns \/ pc = "raised"
        THEN writers = <<>> /\ written = <<>>
        ELSE IF ~HasPercent(opts.extract.v)
        THEN /\ pc = "done"
             /\ WrittenConfigs = SelectedIds
             /\ writers = <<opts.extract.v>>
             /\ \A k \in 1..Len(written) : written[k].writer = 1
        ELSE IF FormatsInt(opts.extract.v)
        THEN /\ pc = "done"
             /\ WrittenConfigs = SelectedIds
             /\ Len(writers) = Len(dcts)
             /\ \A k \in 1..Len(written) :
                   /\ writers[k] = Percent(opts.extract.v, k - 1).val.v
                   /\ written[k].writer = k
        ELSE /\ pc = "raised_extract"
             /\ writers = <<>> /\ written = <<>>

\* Three records extracted with 'a%d' to the files a0, a1, a2.
C9_Witness ==
    /\ pc = "done" /\ Len(dcts) = 3 /\ ~opts.count /\ ~opts.list_columns
    /\ opts.extract = PyStr(<<"a", "%", "d">>)
    /\ writers = << <<"a", "0">>, <<"a", "1">>, <<"a", "2">> >>
    /\ Len(written) = 3

====
